---- MODULE Spec2Model ----
(***************************************************************************)
(* The headers middleware of middlewares/headers.go: one HeaderStruct      *)
(* instance, built by NewHeaderFromStruct, serving several requests.  Each *)
(* request context i owns its request r[i], its response writer w[i] and   *)
(* its backend response res[i]; the instance s, with its originHeader      *)
(* field, is shared by all of them.  A step of the model is a stretch of   *)
(* a method between two accesses to the shared field s.originHeader, so    *)
(* that every interleaving of those accesses is a behaviour.               *)
(***************************************************************************)
EXTENDS Integers, Sequences, FiniteSets, TLC

\* Number of request contexts served by the one instance.
NReq == 2

Reqs == 1..NReq

----------------------------------------------------------------------------
(* net/http.Header as the middleware uses it: a map from the canonical     *)
(* header name to the list of its values.                                  *)

\* Get, Set, Add and Del address a header by its canonical MIME key: the
\* first letter and every letter after a hyphen in upper case, the rest in
\* lower case.  Given on the names that configurations of the model use.
CanonicalHeaderKey(k) ==
    CASE k = "x-custom" -> "X-Custom"
      [] k = "X-CUSTOM" -> "X-Custom"
      [] k = "origin"   -> "Origin"
      [] OTHER          -> k

\* The values header set h holds under the canonical name n.
HeaderValues(h, n) == IF n \in DOMAIN h THEN h[n] ELSE << >>

HeaderGet(h, k) ==
    LET vs == HeaderValues(h, CanonicalHeaderKey(k))
    IN  IF vs = << >> THEN "" ELSE vs[1]

\* Set appending to the values the header has.
HeaderSet_Append(h, k, v) ==
    (CanonicalHeaderKey(k) :> Append(HeaderValues(h, CanonicalHeaderKey(k)), v)) @@ h

HeaderSet(h, k, v) == (CanonicalHeaderKey(k) :> << v >>) @@ h

HeaderAdd(h, k, v) ==
    (CanonicalHeaderKey(k) :> Append(HeaderValues(h, CanonicalHeaderKey(k)), v)) @@ h

HeaderDel(h, k) == [n \in DOMAIN h \ {CanonicalHeaderKey(k)} |-> h[n]]

\* The header set holding the single value m[n] under each name n of m.
HeaderOf(m) == [n \in DOMAIN m |-> << m[n] >>]

----------------------------------------------------------------------------
(* strings.Join, the conversion int(x) of an int64, and strconv.Itoa       *)

RECURSIVE Join(_, _)
Join(elems, sep) ==
    IF elems = << >> THEN ""
    ELSE IF Len(elems) = 1 THEN elems[1]
    ELSE elems[1] \o sep \o Join(Tail(elems), sep)

DigitString(d) ==
    CASE d = 0 -> "0" [] d = 1 -> "1" [] d = 2 -> "2" [] d = 3 -> "3"
      [] d = 4 -> "4" [] d = 5 -> "5" [] d = 6 -> "6" [] d = 7 -> "7"
      [] d = 8 -> "8" [] d = 9 -> "9"

\* An int64 as its two 32-bit halves: hi the upper half and lo the lower
\* half, each read as a signed 32-bit integer.
Int64(hi, lo) == [hi |-> hi, lo |-> lo]

\* The int64 of an integer n that 32 bits hold.
Int64Of(n) == Int64(IF n < 0 THEN -1 ELSE 0, n)

\* The sizes in bits of the type int: 32 or 64, as the build target has it.
IntSizes == {32, 64}

\* int(x) of an int64 x: x itself where int has 64 bits, and where it has
\* 32 the lower half of x, sign-extended.
IntOf(x, size) ==
    IF size = 64 THEN x ELSE Int64(IF x.lo < 0 THEN -1 ELSE 0, x.lo)

\* The 64 bits of x as four 16-bit digits, the most significant first.
Limbs(x) ==
    << (x.hi \div 65536) % 65536, x.hi % 65536,
       (x.lo \div 65536) % 65536, x.lo % 65536 >>

RECURSIVE AddOne(_)
AddOne(ls) ==
    IF ls = << >> THEN << >>
    ELSE LET front == SubSeq(ls, 1, Len(ls) - 1)
             last  == ls[Len(ls)]
         IN  IF last = 65535 THEN Append(AddOne(front), 0)
                             ELSE Append(front, last + 1)

\* The digits of the magnitude of a negative value: uint64(-x).
Negate(ls) == AddOne([k \in DOMAIN ls |-> 65535 - ls[k]])

\* Long division by ten of the digits ls after the remainder rem.
RECURSIVE DivMod10(_, _)
DivMod10(ls, rem) ==
    IF ls = << >> THEN [q |-> << >>, r |-> rem]
    ELSE LET cur  == rem * 65536 + Head(ls)
             rest == DivMod10(Tail(ls), cur % 10)
         IN  [q |-> << cur \div 10 >> \o rest.q, r |-> rest.r]

\* strconv.FormatUint(u, 10) of the value with digits ls.
RECURSIVE FormatUint(_)
FormatUint(ls) ==
    LET d == DivMod10(ls, 0)
    IN  IF \A k \in DOMAIN d.q : d.q[k] = 0
        THEN DigitString(d.r)
        ELSE FormatUint(d.q) \o DigitString(d.r)

\* strconv.FormatInt(x, 10): the decimal string of the int64 x.
FormatInt(x) ==
    IF x.hi < 0 THEN "-" \o FormatUint(Negate(Limbs(x)))
                ELSE FormatUint(Limbs(x))

\* strconv.Itoa(i) is FormatInt(int64(i), 10); i is given sign-extended.
Itoa(i) == FormatInt(i)

----------------------------------------------------------------------------
(* The configuration: types.Headers as NewHeaderFromStruct reads it.       *)

\* A map[string]string with no entries.
NoHeaders == << >>

\* The iteration orders a range over map m can take: Go leaves the order
\* unspecified, so every permutation of the keys is one.
RangeOrders(m) ==
    { o \in [1..Cardinality(DOMAIN m) -> DOMAIN m] :
        \A a, b \in DOMAIN o : a # b => o[a] # o[b] }

\* The fields of a *types.Headers; isNil marks the nil pointer.
MkHeaders(nilp, creq, cres, cred, ah, am, ao, eh, age) ==
    [ isNil                         |-> nilp,
      CustomRequestHeaders          |-> creq,
      CustomResponseHeaders         |-> cres,
      AccessControlAllowCredentials |-> cred,
      AccessControlAllowHeaders     |-> ah,
      AccessControlAllowMethods     |-> am,
      AccessControlAllowOrigin      |-> ao,
      AccessControlExposeHeaders    |-> eh,
      AccessControlMaxAge           |-> age ]

ZeroHeaders ==
    MkHeaders(FALSE, NoHeaders, NoHeaders, FALSE, << >>, << >>, "", << >>, Int64Of(0))

NilHeaders == [ZeroHeaders EXCEPT !.isNil = TRUE]

\* types.Headers.HasCustomHeadersDefined: some custom request or response
\* header is configured.
HasCustomHeadersDefined(h) ==
    /\ ~h.isNil
    /\ \/ DOMAIN h.CustomResponseHeaders # {}
       \/ DOMAIN h.CustomRequestHeaders # {}

\* types.Headers.HasCorsHeadersDefined: some CORS field is set.
HasCorsHeadersDefined(h) ==
    /\ ~h.isNil
    /\ \/ h.AccessControlAllowCredentials
       \/ h.AccessControlAllowHeaders # << >>
       \/ h.AccessControlAllowMethods # << >>
       \/ h.AccessControlAllowOrigin # ""
       \/ h.AccessControlExposeHeaders # << >>
       \/ h.AccessControlMaxAge # Int64Of(0)

\* HeaderOptions copied from the fields of a types.Headers.
HeaderOptions(h) ==
    [ CustomRequestHeaders          |-> h.CustomRequestHeaders,
      CustomResponseHeaders         |-> h.CustomResponseHeaders,
      AccessControlAllowCredentials |-> h.AccessControlAllowCredentials,
      AccessControlAllowHeaders     |-> h.AccessControlAllowHeaders,
      AccessControlAllowMethods     |-> h.AccessControlAllowMethods,
      AccessControlAllowOrigin      |-> h.AccessControlAllowOrigin,
      AccessControlExposeHeaders    |-> h.AccessControlExposeHeaders,
      AccessControlMaxAge           |-> h.AccessControlMaxAge ]

\* NewHeaderFromStruct without the test on what the headers define.
NewHeaderFromStruct_NilOnly(h) ==
    IF h.isNil
    THEN [isNil |-> TRUE,  opt |-> HeaderOptions(ZeroHeaders), originHeader |-> ""]
    ELSE [isNil |-> FALSE, opt |-> HeaderOptions(h),           originHeader |-> ""]

\* The *HeaderStruct NewHeaderFromStruct returns: nil (isNil) when headers
\* is nil or defines neither custom nor CORS headers, else an instance
\* holding the options, its originHeader the zero string.
NewHeaderFromStruct(h) ==
    IF h.isNil \/ (~HasCustomHeadersDefined(h) /\ ~HasCorsHeadersDefined(h))
    THEN [isNil |-> TRUE,  opt |-> HeaderOptions(ZeroHeaders), originHeader |-> ""]
    ELSE [isNil |-> FALSE, opt |-> HeaderOptions(h),           originHeader |-> ""]

----------------------------------------------------------------------------
(* The methods of HeaderStruct, as functions of what they read.            *)

\* The test of line 70 on the values read at lines 66 and 67, the value of
\* s.originHeader when line 70 reads it, and r.Method.
IsPreflight(reqAcMethod, reqAcHeaders, originHeader, method) ==
    /\ reqAcMethod # ""
    /\ reqAcHeaders # ""
    /\ originHeader # ""
    /\ method = "OPTIONS"

\* The loop adding a value where it should set it.
RECURSIVE SetOrDelete_Add(_, _, _)
SetOrDelete_Add(h, m, order) ==
    IF order = << >> THEN h
    ELSE LET header == Head(order)
             value  == m[header]
         IN  SetOrDelete_Add(IF value = "" THEN HeaderDel(h, header)
                                            ELSE HeaderAdd(h, header, value),
                             m, Tail(order))

\* The loop of ModifyRequestHeaders and of ModifyResponseHeaders over a
\* custom header map m, visiting its keys in the given order.
RECURSIVE SetOrDelete(_, _, _)
SetOrDelete(h, m, order) ==
    IF order = << >> THEN h
    ELSE LET header == Head(order)
             value  == m[header]
         IN  SetOrDelete(IF value = "" THEN HeaderDel(h, header)
                                        ELSE HeaderSet(h, header, value),
                         m, Tail(order))

\* ModifyRequestHeaders(r): the request after the loop.
ModifyRequestHeaders(opt, req, order) ==
    [req EXCEPT !.Header = SetOrDelete(@, opt.CustomRequestHeaders, order)]

\* Lines 119-126 of ModifyResponseHeaders: the response header set after
\* the custom header loop.
CustomResponseLoop(opt, h, order) ==
    SetOrDelete(h, opt.CustomResponseHeaders, order)

\* getAllowOrigin without the "null" of line 153.
getAllowOrigin_NoNull(opt, o1, o2) ==
    CASE opt.AccessControlAllowOrigin = "origin-list-or-null" ->
            [val |-> o2, err |-> FALSE]
      [] opt.AccessControlAllowOrigin = "*" ->
            [val |-> "*", err |-> FALSE]
      [] OTHER ->
            [val |-> "", err |-> TRUE]

\* getAllowOrigin taking a setting it does not know for "*".
getAllowOrigin_Lenient(opt, o1, o2) ==
    CASE opt.AccessControlAllowOrigin = "origin-list-or-null" ->
            IF o1 = "" THEN [val |-> "null", err |-> FALSE]
                       ELSE [val |-> o2,     err |-> FALSE]
      [] OTHER ->
            [val |-> "*", err |-> FALSE]

\* getAllowOrigin reads s.originHeader at line 152 (o1) and, when that was
\* not empty, again at line 155 (o2).
getAllowOrigin(opt, o1, o2) ==
    CASE opt.AccessControlAllowOrigin = "origin-list-or-null" ->
            IF o1 = "" THEN [val |-> "null", err |-> FALSE]
                       ELSE [val |-> o2,     err |-> FALSE]
      [] opt.AccessControlAllowOrigin = "*" ->
            [val |-> "*", err |-> FALSE]
      [] OTHER ->
            [val |-> "", err |-> TRUE]

\* Whether getAllowOrigin reaches line 155 after reading o1 at line 152.
ReadsOriginAgain(opt, o1) ==
    opt.AccessControlAllowOrigin = "origin-list-or-null" /\ o1 # ""

\* Lines 72-84 with the two lists taken one for the other.
PreflightHeaders_Swapped(opt, h) ==
    LET h1 == IF opt.AccessControlAllowCredentials
              THEN HeaderAdd(h, "Access-Control-Allow-Credentials", "true")
              ELSE h
        allowHeaders == Join(opt.AccessControlAllowMethods, ",")
        h2 == IF allowHeaders # ""
              THEN HeaderAdd(h1, "Access-Control-Allow-Headers", allowHeaders)
              ELSE h1
        allowMethods == Join(opt.AccessControlAllowHeaders, ",")
    IN  IF allowMethods # ""
        THEN HeaderAdd(h2, "Access-Control-Allow-Methods", allowMethods)
        ELSE h2

\* Lines 72-84: the preflight headers added before the origin is resolved.
PreflightHeaders(opt, h) ==
    LET h1 == IF opt.AccessControlAllowCredentials
              THEN HeaderAdd(h, "Access-Control-Allow-Credentials", "true")
              ELSE h
        allowHeaders == Join(opt.AccessControlAllowHeaders, ",")
        h2 == IF allowHeaders # ""
              THEN HeaderAdd(h1, "Access-Control-Allow-Headers", allowHeaders)
              ELSE h1
        allowMethods == Join(opt.AccessControlAllowMethods, ",")
    IN  IF allowMethods # ""
        THEN HeaderAdd(h2, "Access-Control-Allow-Methods", allowMethods)
        ELSE h2

\* Lines 87-95 without the test of line 91.
PreflightFinish_AlwaysOrigin(opt, h, allowOrigin, size) ==
    HeaderAdd(HeaderAdd(h, "Access-Control-Allow-Origin", allowOrigin),
              "Access-Control-Max-Age", Itoa(IntOf(opt.AccessControlMaxAge, size)))

\* Lines 87-95: the error of getAllowOrigin is only logged; the origin is
\* added when not empty, and Access-Control-Max-Age always, its value the
\* string of int(AccessControlMaxAge) where int has size bits.
PreflightFinish(opt, h, allowOrigin, size) ==
    LET h1 == IF allowOrigin # ""
              THEN HeaderAdd(h, "Access-Control-Allow-Origin", allowOrigin)
              ELSE h
    IN  HeaderAdd(h1, "Access-Control-Max-Age",
                  Itoa(IntOf(opt.AccessControlMaxAge, size)))

\* Lines 133-144 of ModifyResponseHeaders, reached when getAllowOrigin
\* returned no error.
CorsResponseHeaders(opt, h, allowOrigin) ==
    LET h1 == IF allowOrigin # ""
              THEN HeaderSet(h, "Access-Control-Allow-Origin", allowOrigin)
              ELSE h
        h2 == IF opt.AccessControlAllowCredentials
              THEN HeaderSet(h1, "Access-Control-Allow-Credentials", "true")
              ELSE h1
        exposeHeaders == Join(opt.AccessControlExposeHeaders, ",")
    IN  IF exposeHeaders # ""
        THEN HeaderSet(h2, "Access-Control-Expose-Headers", exposeHeaders)
        ELSE h2

\* The downstream handler of the tests: it writes the body "bar", and with
\* it the status 200.
myHandler(rw) == [rw EXCEPT !.Code = 200, !.Body = @ \o "bar"]

\* Lines 97-101 with next called before the request is mutated.
ElseBranch_NextFirst(opt, req, rw, hasNext, order) ==
    [ r    |-> ModifyRequestHeaders(opt, req, order),
      w    |-> IF hasNext THEN myHandler(rw) ELSE rw,
      seen |-> IF hasNext THEN << req.Header >> ELSE << >> ]

\* Lines 97-101: the request is mutated, then next, when not nil, is called
\* with the response writer and the mutated request.  seen lists the request
\* header sets next was called with.
ElseBranch(opt, req, rw, hasNext, order) ==
    LET req1 == ModifyRequestHeaders(opt, req, order)
    IN  [ r    |-> req1,
          w    |-> IF hasNext THEN myHandler(rw) ELSE rw,
          seen |-> IF hasNext THEN << req1.Header >> ELSE << >> ]

----------------------------------------------------------------------------
(* The state.                                                              *)

VARIABLES
    intSize,     \* the size in bits of int in this build (strconv.IntSize)
    headers,     \* the *types.Headers given to NewHeaderFromStruct
    s,           \* the *HeaderStruct it returned: isNil, opt, originHeader
    concurrent,  \* whether the server dispatches calls on s concurrently
    in,          \* in[i]: what context i came with: r, w, res, hasNext, calls
    todo,        \* todo[i]: the calls the proxy has yet to make for context i
    pc,          \* pc[i]: where context i stands in its running call
    r,           \* r[i]: the *http.Request of context i
    w,           \* w[i]: its http.ResponseWriter: Header, Code, Body
    res,         \* res[i]: the header set of its *http.Response
    local,       \* local[i]: the local variables of the running call
    branch,      \* branch[i]: the branch ServeHTTP took at line 70
    nextLog,     \* nextLog[i]: the request header sets next was called with
    ret,         \* ret[i]: what ModifyResponseHeaders returned
    mutated,     \* mutated[i]: ModifyRequestHeaders has run on r[i]
    arrived      \* arrived[i]: the request as ServeHTTP received it

vars == << intSize, headers, s, concurrent, in, todo, pc, r, w, res, local, branch,
           nextLog, ret, mutated, arrived >>

NoLocals == [reqAcMethod |-> "", reqAcHeaders |-> "", o1 |-> "",
             allowOrigin |-> "", err |-> FALSE]

\* The state after construction from one of the configurations hs, with
\* every context holding one of the inputs ins and no call begun.
InitWith(hs, ins, modes) ==
    /\ intSize \in IntSizes
    /\ headers \in hs
    /\ s = NewHeaderFromStruct(headers)
    /\ concurrent \in modes
    /\ in \in [Reqs -> ins]
    /\ todo = [i \in Reqs |-> in[i].calls]
    /\ pc = [i \in Reqs |-> "idle"]
    /\ r = [i \in Reqs |-> in[i].r]
    /\ w = [i \in Reqs |-> in[i].w]
    /\ res = [i \in Reqs |-> in[i].res]
    /\ local = [i \in Reqs |-> NoLocals]
    /\ branch = [i \in Reqs |-> "none"]
    /\ nextLog = [i \in Reqs |-> << >>]
    /\ ret = [i \in Reqs |-> "none"]
    /\ mutated = [i \in Reqs |-> FALSE]
    /\ arrived = [i \in Reqs |-> in[i].r]

\* No call of another context is under way.
NoOtherCall(i) == \A j \in Reqs \ {i} : pc[j] = "idle"

\* The proxy's next call for context i is method, and it may begin.
Calls(i, method) ==
    /\ pc[i] = "idle"
    /\ todo[i] # << >>
    /\ Head(todo[i]) = method
    /\ (concurrent \/ NoOtherCall(i))

----------------------------------------------------------------------------
(* ServeHTTP                                                               *)

\* Lines 66-68 keeping the origin in the options instead.
ServeHTTP_Capture_IntoOptions(i) ==
    /\ Calls(i, "ServeHTTP")
    /\ ~s.isNil
    /\ todo' = [todo EXCEPT ![i] = Tail(@)]
    /\ local' = [local EXCEPT
                   ![i].reqAcMethod  = HeaderGet(r[i].Header, "Access-Control-Request-Method"),
                   ![i].reqAcHeaders = HeaderGet(r[i].Header, "Access-Control-Request-Headers")]
    /\ s' = [s EXCEPT !.originHeader = HeaderGet(r[i].Header, "Origin"),
                      !.opt.AccessControlAllowOrigin = HeaderGet(r[i].Header, "Origin")]
    /\ arrived' = [arrived EXCEPT ![i] = r[i]]
    /\ pc' = [pc EXCEPT ![i] = "sh_branch"]
    /\ UNCHANGED << intSize, headers, concurrent, in, r, w, res, branch, nextLog, ret, mutated >>

\* Lines 66-68: the three header reads, and the write of s.originHeader.
ServeHTTP_Capture(i) ==
    /\ Calls(i, "ServeHTTP")
    /\ ~s.isNil
    /\ todo' = [todo EXCEPT ![i] = Tail(@)]
    /\ local' = [local EXCEPT
                   ![i].reqAcMethod  = HeaderGet(r[i].Header, "Access-Control-Request-Method"),
                   ![i].reqAcHeaders = HeaderGet(r[i].Header, "Access-Control-Request-Headers")]
    /\ s' = [s EXCEPT !.originHeader = HeaderGet(r[i].Header, "Origin")]
    /\ arrived' = [arrived EXCEPT ![i] = r[i]]
    /\ pc' = [pc EXCEPT ![i] = "sh_branch"]
    /\ UNCHANGED << intSize, headers, concurrent, in, r, w, res, branch, nextLog, ret, mutated >>

\* The preflight branch mutating the request as the other branch does.
ServeHTTP_Preflight_Mutating(i) ==
    /\ pc[i] = "sh_branch"
    /\ IsPreflight(local[i].reqAcMethod, local[i].reqAcHeaders, s.originHeader, r[i].Method)
    /\ branch' = [branch EXCEPT ![i] = "preflight"]
    /\ w' = [w EXCEPT ![i].Header = PreflightHeaders(s.opt, @)]
    /\ \E order \in RangeOrders(s.opt.CustomRequestHeaders) :
         r' = [r EXCEPT ![i] = ModifyRequestHeaders(s.opt, @, order)]
    /\ pc' = [pc EXCEPT ![i] = "pf_gao"]
    /\ UNCHANGED << intSize, headers, s, concurrent, in, todo, res, local, nextLog, ret, mutated, arrived >>

\* Line 70 true, reading s.originHeader, then lines 72-84 and the call of
\* getAllowOrigin.
ServeHTTP_Preflight(i) ==
    /\ pc[i] = "sh_branch"
    /\ IsPreflight(local[i].reqAcMethod, local[i].reqAcHeaders, s.originHeader, r[i].Method)
    /\ branch' = [branch EXCEPT ![i] = "preflight"]
    /\ w' = [w EXCEPT ![i].Header = PreflightHeaders(s.opt, @)]
    /\ pc' = [pc EXCEPT ![i] = "pf_gao"]
    /\ UNCHANGED << intSize, headers, s, concurrent, in, todo, r, res, local, nextLog, ret, mutated, arrived >>

\* Line 70 false, reading s.originHeader, then lines 97-101; ServeHTTP
\* returns.
ServeHTTP_Else(i) ==
    /\ pc[i] = "sh_branch"
    /\ ~IsPreflight(local[i].reqAcMethod, local[i].reqAcHeaders, s.originHeader, r[i].Method)
    /\ \E order \in RangeOrders(s.opt.CustomRequestHeaders) :
         LET out == ElseBranch(s.opt, r[i], w[i], in[i].hasNext, order)
         IN  /\ r' = [r EXCEPT ![i] = out.r]
             /\ w' = [w EXCEPT ![i] = out.w]
             /\ nextLog' = [nextLog EXCEPT ![i] = @ \o out.seen]
    /\ branch' = [branch EXCEPT ![i] = "else"]
    /\ mutated' = [mutated EXCEPT ![i] = TRUE]
    /\ pc' = [pc EXCEPT ![i] = "idle"]
    /\ UNCHANGED << intSize, headers, s, concurrent, in, todo, res, local, ret, arrived >>

\* Lines 150-154 and 156-159 of getAllowOrigin, called from ServeHTTP
\* (pf_gao) or from ModifyResponseHeaders (mr_gao): the switch, and the
\* read of s.originHeader at line 152.
getAllowOrigin_Switch(i) ==
    /\ pc[i] \in {"pf_gao", "mr_gao"}
    /\ LET o1  == s.originHeader
           got == getAllowOrigin(s.opt, o1, o1)
           to  == IF pc[i] = "pf_gao" THEN "pf" ELSE "mr"
       IN  IF ReadsOriginAgain(s.opt, o1)
           THEN /\ local' = [local EXCEPT ![i].o1 = o1]
                /\ pc' = [pc EXCEPT ![i] = to \o "_gao2"]
           ELSE /\ local' = [local EXCEPT ![i].o1 = o1, ![i].allowOrigin = got.val,
                                          ![i].err = got.err]
                /\ pc' = [pc EXCEPT ![i] = to \o "_ret"]
    /\ UNCHANGED << intSize, headers, s, concurrent, in, todo, r, w, res, branch, nextLog, ret, mutated, arrived >>

\* Line 155 of getAllowOrigin: the second read of s.originHeader.
getAllowOrigin_Reflect(i) ==
    /\ pc[i] \in {"pf_gao2", "mr_gao2"}
    /\ LET got == getAllowOrigin(s.opt, local[i].o1, s.originHeader)
       IN  local' = [local EXCEPT ![i].allowOrigin = got.val, ![i].err = got.err]
    /\ pc' = [pc EXCEPT ![i] = IF pc[i] = "pf_gao2" THEN "pf_ret" ELSE "mr_ret"]
    /\ UNCHANGED << intSize, headers, s, concurrent, in, todo, r, w, res, branch, nextLog, ret, mutated, arrived >>

\* Lines 87-95, with what getAllowOrigin returned; ServeHTTP returns.
ServeHTTP_PreflightReturn(i) ==
    /\ pc[i] = "pf_ret"
    /\ w' = [w EXCEPT ![i].Header = PreflightFinish(s.opt, @, local[i].allowOrigin, intSize)]
    /\ pc' = [pc EXCEPT ![i] = "idle"]
    /\ UNCHANGED << intSize, headers, s, concurrent, in, todo, r, res, local, branch, nextLog, ret, mutated, arrived >>

----------------------------------------------------------------------------
(* ModifyRequestHeaders and ModifyResponseHeaders, called by the proxy.    *)

\* ModifyRequestHeaders(r[i]), called on its own.
ModifyRequestHeaders_Call(i) ==
    /\ Calls(i, "ModifyRequestHeaders")
    /\ ~s.isNil
    /\ todo' = [todo EXCEPT ![i] = Tail(@)]
    /\ \E order \in RangeOrders(s.opt.CustomRequestHeaders) :
         r' = [r EXCEPT ![i] = ModifyRequestHeaders(s.opt, @, order)]
    /\ mutated' = [mutated EXCEPT ![i] = TRUE]
    /\ UNCHANGED << intSize, headers, s, concurrent, in, pc, w, res, local, branch, nextLog, ret, arrived >>

\* Lines 119-126 of ModifyResponseHeaders(res[i]) and the call of
\* getAllowOrigin.
ModifyResponseHeaders_Custom(i) ==
    /\ Calls(i, "ModifyResponseHeaders")
    /\ ~s.isNil
    /\ todo' = [todo EXCEPT ![i] = Tail(@)]
    /\ \E order \in RangeOrders(s.opt.CustomResponseHeaders) :
         res' = [res EXCEPT ![i] = CustomResponseLoop(s.opt, @, order)]
    /\ ret' = [ret EXCEPT ![i] = "none"]
    /\ pc' = [pc EXCEPT ![i] = "mr_gao"]
    /\ UNCHANGED << intSize, headers, s, concurrent, in, r, w, local, branch, nextLog, mutated, arrived >>

\* Lines 129-146 with the CORS headers set before the error is returned.
ModifyResponseHeaders_Return_SetFirst(i) ==
    /\ pc[i] = "mr_ret"
    /\ ret' = [ret EXCEPT ![i] = IF local[i].err THEN "err" ELSE "nil"]
    /\ res' = [res EXCEPT ![i] = CorsResponseHeaders(s.opt, @, local[i].allowOrigin)]
    /\ pc' = [pc EXCEPT ![i] = "idle"]
    /\ UNCHANGED << intSize, headers, s, concurrent, in, todo, r, w, local, branch, nextLog, mutated, arrived >>

\* Lines 129-146: the error of getAllowOrigin is returned, or the CORS
\* headers are set and nil is returned.
ModifyResponseHeaders_Return(i) ==
    /\ pc[i] = "mr_ret"
    /\ IF local[i].err
       THEN /\ ret' = [ret EXCEPT ![i] = "err"]
            /\ res' = res
       ELSE /\ ret' = [ret EXCEPT ![i] = "nil"]
            /\ res' = [res EXCEPT ![i] = CorsResponseHeaders(s.opt, @, local[i].allowOrigin)]
    /\ pc' = [pc EXCEPT ![i] = "idle"]
    /\ UNCHANGED << intSize, headers, s, concurrent, in, todo, r, w, local, branch, nextLog, mutated, arrived >>

\* The chain built without the stage, NewHeaderFromStruct having returned
\* nil: the request goes to the downstream handler as it came.
Passthrough(i) ==
    /\ Calls(i, "ServeHTTP")
    /\ s.isNil
    /\ todo' = [todo EXCEPT ![i] = Tail(@)]
    /\ w' = [w EXCEPT ![i] = myHandler(@)]
    /\ nextLog' = [nextLog EXCEPT ![i] = Append(@, r[i].Header)]
    /\ UNCHANGED << intSize, headers, s, concurrent, in, pc, r, res, local, branch, ret, mutated, arrived >>

Next ==
    \E i \in Reqs :
        \/ ServeHTTP_Capture(i)
        \/ ServeHTTP_Preflight(i)
        \/ ServeHTTP_Else(i)
        \/ getAllowOrigin_Switch(i)
        \/ getAllowOrigin_Reflect(i)
        \/ ServeHTTP_PreflightReturn(i)
        \/ ModifyRequestHeaders_Call(i)
        \/ ModifyResponseHeaders_Custom(i)
        \/ ModifyResponseHeaders_Return(i)
        \/ Passthrough(i)

----------------------------------------------------------------------------
(* The configurations and inputs of the specifications.                    *)

Request(method, hs) == [Method |-> method, Header |-> HeaderOf(hs)]

\* A response writer nothing was written to yet, with the given headers.
ResponseWriter(hs) == [Header |-> HeaderOf(hs), Code |-> 0, Body |-> ""]

Input(req, rw, resp, hasNext, calls) ==
    [r |-> req, w |-> rw, res |-> HeaderOf(resp), hasNext |-> hasNext, calls |-> calls]

PreflightOf(origin) ==
    Request("OPTIONS", ("Access-Control-Request-Method" :> "GET")
                       @@ ("Access-Control-Request-Headers" :> "X-Foo")
                       @@ ("Origin" :> origin))

\* A preflight request but for its missing Origin.
OptionsNoOrigin ==
    Request("OPTIONS", ("Access-Control-Request-Method" :> "GET")
                       @@ ("Access-Control-Request-Headers" :> "X-Foo")
                       @@ ("X-Custom" :> "sent"))

\* A preflight request but for its method.
GetWithOrigin ==
    Request("GET", ("Access-Control-Request-Method" :> "GET")
                   @@ ("Access-Control-Request-Headers" :> "X-Foo")
                   @@ ("Origin" :> "https://c.test")
                   @@ ("X-Custom" :> "sent") @@ ("X-Other" :> "kept"))

PlainGet == Request("GET", "X-Other" :> "kept")

\* A response that already carries CORS and custom headers.
EarlierHeaders ==
    ("Access-Control-Allow-Origin" :> "https://old.test")
    @@ ("Access-Control-Max-Age" :> "1")
    @@ ("X-Custom" :> "backend") @@ ("X-Other" :> "kept")

\* The proxy serves the request, then modifies the backend's response.
Proxied == << "ServeHTTP", "ModifyResponseHeaders" >>

Inputs ==
    { Input(PreflightOf("https://a.test"), ResponseWriter(EarlierHeaders),
            << >>, TRUE, << "ServeHTTP" >>),
      Input(OptionsNoOrigin, ResponseWriter(<< >>), << >>, FALSE,
            << "ModifyRequestHeaders", "ServeHTTP" >>),
      Input(GetWithOrigin, ResponseWriter(<< >>), EarlierHeaders, TRUE, Proxied) }

AllowOrigins == {"origin-list-or-null", "*", "bogus", ""}

\* Configurations that differ in their CORS fields.
CorsConfigs ==
    { MkHeaders(FALSE, "x-custom" :> "req", "X-Custom" :> "resp",
                lists[1], lists[2], lists[3], ao, lists[4], lists[5]) :
        ao \in AllowOrigins,
        lists \in { << FALSE, << >>, << >>, << >>, Int64Of(0) >>,
                    << TRUE, << "X-Foo", "X-Bar" >>, << "GET", "PUT" >>, << "X-Total" >>,
                       Int64Of(600) >> } }

\* Configurations from which no instance is built.
NoConfigs == { NilHeaders, ZeroHeaders }

\* Custom header maps: a name in another case, a deletion, two names of one
\* header, and the Origin header set or deleted.
CustomMaps ==
    { "X-Custom" :> "req",
      "X-CUSTOM" :> "",
      ("X-Custom" :> "req") @@ ("x-custom" :> "other"),
      ("X-Custom" :> "") @@ ("x-custom" :> "req"),
      ("Origin" :> "https://forged.test") @@ ("X-Custom" :> ""),
      "Origin" :> "" }

\* Configurations that differ in their custom headers.
CustomConfigs ==
    { MkHeaders(FALSE, m, m, FALSE, << >>, << >>, ao, << >>, Int64Of(0)) :
        m \in CustomMaps, ao \in {"origin-list-or-null"} }

\* Configurations whose custom headers delete a header, name one header
\* twice, and set the Origin header.
SomeCustomConfigs ==
    { MkHeaders(FALSE, m, m, FALSE, << >>, << >>, "origin-list-or-null", << >>, Int64Of(0)) :
        m \in { "X-CUSTOM" :> "",
                ("X-Custom" :> "req") @@ ("x-custom" :> "other"),
                ("Origin" :> "https://forged.test") @@ ("X-Custom" :> "") } }

\* A configuration whose only field set is an AccessControlMaxAge that 32
\* bits do not hold: 4294967296, the 2^32 of hi = 1 and lo = 0.
WideMaxAgeConfigs == { [ZeroHeaders EXCEPT !.AccessControlMaxAge = Int64(1, 0)] }

\* A configuration whose AccessControlAllowHeaders holds one element, the
\* empty string.
EmptyElementConfigs ==
    { [ZeroHeaders EXCEPT !.AccessControlAllowHeaders = << "" >>,
                          !.AccessControlAllowMethods = << "GET" >>,
                          !.AccessControlAllowOrigin = "*"] }

\* A configuration that sets a CORS header as a custom response header and
\* leaves the CORS fields unset.
CorsByCustomConfigs ==
    { [ZeroHeaders EXCEPT !.CustomResponseHeaders =
                              "Access-Control-Allow-Origin" :> "https://custom.test"] }

Init ==
    InitWith(CorsConfigs \cup SomeCustomConfigs \cup WideMaxAgeConfigs
                 \cup EmptyElementConfigs \cup CorsByCustomConfigs \cup NoConfigs,
             Inputs, {TRUE})

\* The calls on the instance interleave as the scheduler has it.
Spec == Init /\ [][Next]_vars

\* Configurations with one field set and the others zero.
SingleFieldConfigs ==
    { [ZeroHeaders EXCEPT !.CustomRequestHeaders = "X-Custom" :> "req"],
      [ZeroHeaders EXCEPT !.CustomResponseHeaders = "X-Custom" :> ""],
      [ZeroHeaders EXCEPT !.AccessControlAllowCredentials = TRUE],
      [ZeroHeaders EXCEPT !.AccessControlAllowHeaders = << "" >>],
      [ZeroHeaders EXCEPT !.AccessControlAllowMethods = << "GET" >>],
      [ZeroHeaders EXCEPT !.AccessControlAllowOrigin = "*"],
      [ZeroHeaders EXCEPT !.AccessControlExposeHeaders = << "X-Total" >>],
      [ZeroHeaders EXCEPT !.AccessControlMaxAge = Int64Of(600)] }

InputsSeq ==
    { Input(PreflightOf("https://a.test"), ResponseWriter(EarlierHeaders),
            << >>, TRUE, Proxied),
      Input(OptionsNoOrigin, ResponseWriter(<< >>), EarlierHeaders, FALSE,
            << "ModifyRequestHeaders", "ServeHTTP", "ModifyResponseHeaders" >>),
      Input(GetWithOrigin, ResponseWriter(<< >>), EarlierHeaders, TRUE, Proxied),
      Input(PlainGet, ResponseWriter(<< >>), << >>, TRUE,
            << "ModifyResponseHeaders", "ServeHTTP" >>) }

InitSeq ==
    InitWith(CorsConfigs \cup CustomConfigs \cup SingleFieldConfigs
                 \cup WideMaxAgeConfigs \cup NoConfigs,
             InputsSeq, {FALSE})

\* The calls on the instance follow one another and never overlap.
SpecSeq == InitSeq /\ [][Next]_vars

\* The proxy mutates a request before it serves it, or twice after it was
\* served, and mutates a response again after a call that returned an error.
InputsTwice ==
    { Input(GetWithOrigin, ResponseWriter(<< >>), EarlierHeaders, TRUE,
            << "ModifyRequestHeaders", "ServeHTTP",
               "ModifyResponseHeaders", "ModifyResponseHeaders" >>),
      Input(PreflightOf("https://a.test"), ResponseWriter(EarlierHeaders),
            << >>, TRUE,
            << "ServeHTTP", "ModifyRequestHeaders", "ModifyRequestHeaders" >>) }

\* The custom header maps under an allowOrigin that getAllowOrigin
\* rejects, and one of them under one that it accepts.
CustomConfigsTwice ==
    { MkHeaders(FALSE, m, m, FALSE, << >>, << >>, "", << >>, Int64Of(0)) :
        m \in CustomMaps }
    \cup { MkHeaders(FALSE, "X-Custom" :> "req", "X-Custom" :> "req", FALSE,
                     << >>, << >>, "origin-list-or-null", << >>, Int64Of(0)) }

InitTwice == InitWith(CustomConfigsTwice \cup { ZeroHeaders }, InputsTwice, {FALSE})

\* The calls follow one another, and a context gets the same mutation twice
\* in a row.
SpecTwice == InitTwice /\ [][Next]_vars

----------------------------------------------------------------------------
(* What the properties speak of.                                           *)

ACAO == "Access-Control-Allow-Origin"

Configured(ao) == ~s.isNil /\ s.opt.AccessControlAllowOrigin = ao

ValidAllowOrigin == s.opt.AccessControlAllowOrigin \in {"origin-list-or-null", "*"}

\* The Origin header of the request ServeHTTP received in context i.
OriginOf(i) == HeaderGet(arrived[i].Header, "Origin")

\* ServeHTTP has returned in context i.
Served(i) == branch[i] # "none" /\ pc[i] \notin {"pf_gao", "pf_gao2", "pf_ret"}

\* The names of map m that are its only name for their header.
SoleNames(m) ==
    { k \in DOMAIN m :
        \A k2 \in DOMAIN m : CanonicalHeaderKey(k2) = CanonicalHeaderKey(k) => k2 = k }

\* The headers the names of map m denote.
NamedHeaders(m) == { CanonicalHeaderKey(k) : k \in DOMAIN m }

\* Header set h is h0 but for the headers that map m names.
OthersUnchanged(h0, h, m) ==
    \A n \in (DOMAIN h \cup DOMAIN h0) \ NamedHeaders(m) :
        HeaderValues(h, n) = HeaderValues(h0, n)

\* In header set h, every name in ks has the value map m gives it, and is
\* absent when that value is empty.
HasValues(h, m, ks) ==
    \A k \in ks :
        /\ m[k] # "" => HeaderValues(h, CanonicalHeaderKey(k)) = << m[k] >>
        /\ m[k] = "" => CanonicalHeaderKey(k) \notin DOMAIN h

----------------------------------------------------------------------------
(* C1: under allowOrigin "origin-list-or-null", whatever the interleaving  *)
(* of the ServeHTTP calls, the Access-Control-Allow-Origin value added to  *)
(* a preflight response is the Origin header of that same request.         *)
C1_PreflightReflectsOwnOrigin ==
    \A i \in Reqs :
        (Configured("origin-list-or-null") /\ branch[i] = "preflight" /\ Served(i))
            => HeaderValues(w[i].Header, ACAO)
                   = Append(HeaderValues(in[i].w.Header, ACAO), OriginOf(i))

(* C2: under allowOrigin "origin-list-or-null", a response modified after  *)
(* its request was served carries the request's own Origin, or "null" if   *)
(* it had none, whatever other requests were served in between.            *)
C2_ResponseReflectsOwnOrigin ==
    \A i \in Reqs :
        (Configured("origin-list-or-null") /\ in[i].calls = Proxied /\ ret[i] = "nil")
            => HeaderValues(res[i], ACAO)
                   = << IF OriginOf(i) = "" THEN "null" ELSE OriginOf(i) >>

(* C3: ServeHTTP takes the preflight branch exactly when the request's     *)
(* method is OPTIONS and its Access-Control-Request-Method,                *)
(* Access-Control-Request-Headers and Origin headers are not empty, and    *)
(* in the preflight branch next is never called.                           *)
C3_PreflightIffRequestIs ==
    \A i \in Reqs :
        branch[i] # "none" =>
            /\ branch[i] = "preflight" <=>
                   /\ arrived[i].Method = "OPTIONS"
                   /\ HeaderGet(arrived[i].Header, "Access-Control-Request-Method") # ""
                   /\ HeaderGet(arrived[i].Header, "Access-Control-Request-Headers") # ""
                   /\ HeaderGet(arrived[i].Header, "Origin") # ""
            /\ branch[i] = "preflight" => nextLog[i] = << >>

(* C4: in the branch that is not the preflight one, ServeHTTP applies the  *)
(* custom request headers and only then calls next, once, when next is not *)
(* nil: next sees the mutated request; when next is nil the mutation is    *)
(* applied and nothing else happens.                                       *)
C4_MutateThenNext ==
    \A i \in Reqs :
        branch[i] = "else" =>
            LET m == s.opt.CustomRequestHeaders
            IN  /\ HasValues(r[i].Header, m, SoleNames(m))
                /\ OthersUnchanged(in[i].r.Header, r[i].Header, m)
                /\ r[i].Method = in[i].r.Method
                /\ IF in[i].hasNext
                   THEN /\ Len(nextLog[i]) = 1
                        /\ HasValues(nextLog[i][1], m, SoleNames(m))
                        /\ OthersUnchanged(in[i].r.Header, nextLog[i][1], m)
                        /\ w[i] = [in[i].w EXCEPT !.Code = 200, !.Body = "bar"]
                   ELSE /\ nextLog[i] = << >>
                        /\ w[i] = in[i].w

\* A request that carried a configured header was handed to next.
C4_Witness ==
    \E i \in Reqs :
        /\ branch[i] = "else"
        /\ in[i].hasNext
        /\ HeaderGet(in[i].r.Header, "X-Custom") = "sent"
        /\ Len(nextLog[i]) = 1
        /\ HeaderGet(nextLog[i][1], "X-Custom") = "req"

(* C5: once ServeHTTP has handled a request that is not a preflight, every *)
(* custom response header with a value that is not empty is on the         *)
(* response with that value.                                               *)
C5_ResponseHeadersAfterServe ==
    \A i \in Reqs :
        (branch[i] = "else" /\ Served(i)) =>
            \A k \in DOMAIN s.opt.CustomResponseHeaders :
                s.opt.CustomResponseHeaders[k] # ""
                    => HeaderGet(w[i].Header, k) = s.opt.CustomResponseHeaders[k]

\* Both kinds of request went down the branch that is not the preflight
\* one: a GET, and an OPTIONS request without Origin.
C5_Reached ==
    \E i \in Reqs : branch[i] = "else" /\ Served(i) /\ w[i].Body = "bar"

(* C6 as stated: once ModifyRequestHeaders has run on a request, by itself *)
(* or in ServeHTTP, every name of customRequestHeaders has its value on    *)
(* the request, or is absent when its value is empty, and the headers the  *)
(* map does not name are unchanged.                                        *)
C6_EveryPairApplied ==
    \A i \in Reqs :
        mutated[i] =>
            LET m == s.opt.CustomRequestHeaders
            IN  /\ HasValues(r[i].Header, m, DOMAIN m)
                /\ OthersUnchanged(in[i].r.Header, r[i].Header, m)

(* C6, amended: the same for every name that is the map's only name for    *)
(* its header; a header that several names of the map denote (names that   *)
(* differ in case) ends as one of them has it; the headers the map does    *)
(* not name are unchanged.                                                 *)
C6_SolePairsApplied ==
    \A i \in Reqs :
        mutated[i] =>
            LET m == s.opt.CustomRequestHeaders
            IN  /\ HasValues(r[i].Header, m, SoleNames(m))
                /\ \A k \in DOMAIN m : \E k2 \in DOMAIN m :
                       /\ CanonicalHeaderKey(k2) = CanonicalHeaderKey(k)
                       /\ HasValues(r[i].Header, m, {k2})
                /\ OthersUnchanged(in[i].r.Header, r[i].Header, m)

\* A header the request carried was deleted by a name in another case, and
\* a header the map does not name was kept.
C6_Witness ==
    \E i \in Reqs :
        /\ mutated[i]
        /\ s.opt.CustomRequestHeaders = ("X-CUSTOM" :> "")
        /\ HeaderGet(in[i].r.Header, "X-Custom") = "sent"
        /\ "X-Custom" \notin DOMAIN r[i].Header
        /\ HeaderGet(r[i].Header, "X-Other") = "kept"

(* C7: what getAllowOrigin returns is decided by the allowOrigin setting   *)
(* and the captured origin, the value of s.originHeader it finds: "*"      *)
(* under "*", whatever the origin; under "origin-list-or-null", "null"     *)
(* for the empty origin and else the origin as it is; and no error under   *)
(* either.                                                                 *)
C7_OriginResolution ==
    \A i \in Reqs :
        pc[i] \in {"pf_ret", "mr_ret"} =>
            /\ Configured("*") =>
                   local[i].allowOrigin = "*" /\ ~local[i].err
            /\ Configured("origin-list-or-null") =>
                   /\ ~local[i].err
                   /\ local[i].o1 = "" => local[i].allowOrigin = "null"
                   /\ local[i].o1 # "" => local[i].allowOrigin = local[i].o1

(* C8: a preflight under an allowOrigin that is neither                    *)
(* "origin-list-or-null" nor "*" gets no Access-Control-Allow-Origin       *)
(* header, gets Access-Control-Max-Age and the configured credentials,     *)
(* headers and methods headers (each list joined with ","), and returns    *)
(* without calling next.                                                   *)
C8_PreflightSuppressesError ==
    \A i \in Reqs :
        (~s.isNil /\ ~ValidAllowOrigin /\ branch[i] = "preflight" /\ Served(i)) =>
            LET h0 == in[i].w.Header
                h  == w[i].Header
                added(name, values) ==
                    HeaderValues(h, name) = HeaderValues(h0, name) \o values
            IN  /\ added(ACAO, << >>)
                /\ added("Access-Control-Max-Age",
                         << Itoa(IntOf(s.opt.AccessControlMaxAge, intSize)) >>)
                /\ added("Access-Control-Allow-Credentials",
                         IF s.opt.AccessControlAllowCredentials THEN << "true" >> ELSE << >>)
                /\ added("Access-Control-Allow-Headers",
                         IF Join(s.opt.AccessControlAllowHeaders, ",") # ""
                         THEN << Join(s.opt.AccessControlAllowHeaders, ",") >> ELSE << >>)
                /\ added("Access-Control-Allow-Methods",
                         IF Join(s.opt.AccessControlAllowMethods, ",") # ""
                         THEN << Join(s.opt.AccessControlAllowMethods, ",") >> ELSE << >>)
                /\ w[i].Code = in[i].w.Code /\ w[i].Body = in[i].w.Body
                /\ nextLog[i] = << >>

\* A preflight answered under the setting "bogus", with every list set.
C8_Witness ==
    \E i \in Reqs :
        /\ Configured("bogus")
        /\ branch[i] = "preflight"
        /\ Served(i)
        /\ local[i].err
        /\ HeaderValues(w[i].Header, "Access-Control-Max-Age") = << "1", "600" >>
        /\ HeaderValues(w[i].Header, "Access-Control-Allow-Methods") = << "GET,PUT" >>

(* C9: ModifyResponseHeaders returns an error under every allowOrigin      *)
(* other than "origin-list-or-null" and "*", the empty one included,       *)
(* whatever the captured origin, and returns nil under those two.          *)
C9_ErrorIffInvalidSetting ==
    \A i \in Reqs :
        ret[i] # "none" =>
            /\ ret[i] \in {"nil", "err"}
            /\ ret[i] = "err" <=> ~ValidAllowOrigin

\* An error returned under the empty setting, an origin being captured.
C9_Witness ==
    \E i \in Reqs :
        /\ Configured("")
        /\ ret[i] = "err"
        /\ s.originHeader # ""

(* C10: from no headers, or from headers with no custom header and no      *)
(* CORS field set, no instance is built, and a request through the chain   *)
(* reaches the downstream handler with the request and the response        *)
(* headers as they came.                                                   *)
C10_NoConfigPassthrough ==
    (\/ headers.isNil
     \/ /\ DOMAIN headers.CustomRequestHeaders = {}
        /\ DOMAIN headers.CustomResponseHeaders = {}
        /\ ~headers.AccessControlAllowCredentials
        /\ headers.AccessControlAllowHeaders = << >>
        /\ headers.AccessControlAllowMethods = << >>
        /\ headers.AccessControlAllowOrigin = ""
        /\ headers.AccessControlExposeHeaders = << >>
        /\ headers.AccessControlMaxAge = Int64Of(0))
    => /\ s.isNil
       /\ \A i \in Reqs :
            /\ r[i] = in[i].r
            /\ w[i].Header = in[i].w.Header
            /\ res[i] = in[i].res
            /\ ret[i] = "none"
            /\ nextLog[i] \in { << >>, << in[i].r.Header >> }
            /\ nextLog[i] # << >> => w[i].Body = "bar"
            /\ "ServeHTTP" \notin { todo[i][n] : n \in DOMAIN todo[i] }
                   => nextLog[i] # << >>

\* A request passed through the chain built from headers with nothing set.
C10_Witness ==
    \E i \in Reqs :
        /\ ~headers.isNil
        /\ s.isNil
        /\ nextLog[i] = << in[i].r.Header >>
        /\ w[i].Body = "bar"

(* C11: every response of the preflight branch gets one more               *)
(* Access-Control-Max-Age value, the decimal string of the configured      *)
(* AccessControlMaxAge, whatever the configuration: a zero maxAge, no      *)
(* other CORS field set, an allowOrigin that getAllowOrigin rejects.       *)
C11_MaxAgeIsDecimalOfMaxAge ==
    \A i \in Reqs :
        (~s.isNil /\ branch[i] = "preflight" /\ Served(i)) =>
            HeaderValues(w[i].Header, "Access-Control-Max-Age")
                = Append(HeaderValues(in[i].w.Header, "Access-Control-Max-Age"),
                         FormatInt(s.opt.AccessControlMaxAge))

\* The preflight of context i added exactly values to the header name.
PreflightAdded(i, name, values) ==
    HeaderValues(w[i].Header, name) = HeaderValues(in[i].w.Header, name) \o values

(* C12 as stated: a preflight response gets Access-Control-Allow-Headers   *)
(* (Access-Control-Allow-Methods) with the elements of allowHeaders        *)
(* (allowMethods) joined with "," in their order whenever the list is not  *)
(* empty, and does not get the header when the list is empty.              *)
C12_NonEmptyListsAdded ==
    \A i \in Reqs :
        (~s.isNil /\ branch[i] = "preflight" /\ Served(i)) =>
            /\ PreflightAdded(i, "Access-Control-Allow-Headers",
                   IF s.opt.AccessControlAllowHeaders # << >>
                   THEN << Join(s.opt.AccessControlAllowHeaders, ",") >> ELSE << >>)
            /\ PreflightAdded(i, "Access-Control-Allow-Methods",
                   IF s.opt.AccessControlAllowMethods # << >>
                   THEN << Join(s.opt.AccessControlAllowMethods, ",") >> ELSE << >>)

(* C12, amended: the header is added, with the joined elements, whenever   *)
(* the joined string is not empty, and is not added when it is empty: for  *)
(* the empty list and for the list of one empty string.                    *)
C12_NonEmptyJoinsAdded ==
    \A i \in Reqs :
        (~s.isNil /\ branch[i] = "preflight" /\ Served(i)) =>
            /\ PreflightAdded(i, "Access-Control-Allow-Headers",
                   IF Join(s.opt.AccessControlAllowHeaders, ",") # ""
                   THEN << Join(s.opt.AccessControlAllowHeaders, ",") >> ELSE << >>)
            /\ PreflightAdded(i, "Access-Control-Allow-Methods",
                   IF Join(s.opt.AccessControlAllowMethods, ",") # ""
                   THEN << Join(s.opt.AccessControlAllowMethods, ",") >> ELSE << >>)

\* A preflight answered with both lists set, each of two elements.
C12_Witness ==
    \E i \in Reqs :
        /\ branch[i] = "preflight"
        /\ Served(i)
        /\ s.opt.AccessControlAllowHeaders = << "X-Foo", "X-Bar" >>
        /\ HeaderValues(w[i].Header, "Access-Control-Allow-Headers") = << "X-Foo,X-Bar" >>
        /\ HeaderValues(w[i].Header, "Access-Control-Allow-Methods") = << "GET,PUT" >>

(* C13: once ModifyResponseHeaders has returned nil, the response has one  *)
(* Access-Control-Allow-Origin value, the origin getAllowOrigin resolved,  *)
(* whatever values it carried before; Access-Control-Allow-Credentials is  *)
(* "true" when allowCredentials is set, and Access-Control-Expose-Headers  *)
(* is the joined exposeHeaders when that list is not empty.                *)
C13_CorsHeadersOverwritten ==
    \A i \in Reqs :
        ret[i] = "nil" =>
            /\ HeaderValues(res[i], ACAO) = << local[i].allowOrigin >>
            /\ s.opt.AccessControlAllowCredentials
                   => HeaderValues(res[i], "Access-Control-Allow-Credentials") = << "true" >>
            /\ s.opt.AccessControlExposeHeaders # << >>
                   => HeaderValues(res[i], "Access-Control-Expose-Headers")
                          = << Join(s.opt.AccessControlExposeHeaders, ",") >>

\* The header sets one run of the loop over map m can make of h0.
LoopResults(h0, m) == { SetOrDelete(h0, m, order) : order \in RangeOrders(m) }

(* C14 as stated: a header set the loop of ModifyRequestHeaders (of         *)
(* ModifyResponseHeaders) has run over is left as it is by another run of  *)
(* the loop with the same mapping, whatever the mapping and the headers.   *)
C14_TwiceIsOnce ==
    [][\A i \in Reqs :
          /\ mutated[i] => r'[i] = r[i]
          /\ ret[i] = "err" => res'[i] = res[i]]_vars

(* C14, amended: so it is for every mapping no two names of which denote   *)
(* the same header; under a mapping with two names for one header the      *)
(* second run leaves a header set that one run could have left.            *)
C14_TwiceIsOnceOfSoleNames ==
    [][\A i \in Reqs :
          /\ mutated[i] =>
                LET m == s.opt.CustomRequestHeaders
                IN  /\ SoleNames(m) = DOMAIN m => r'[i] = r[i]
                    /\ r'[i].Header \in LoopResults(in[i].r.Header, m)
          /\ ret[i] = "err" =>
                LET m == s.opt.CustomResponseHeaders
                IN  /\ SoleNames(m) = DOMAIN m => res'[i] = res[i]
                    /\ res'[i] \in LoopResults(in[i].res, m)]_vars

\* The request loop ran twice over a request, deleting a header it came
\* with, and the response loop ran twice over its response.
C14_Witness ==
    \E i \in Reqs :
        /\ in[i].calls[1] = "ModifyRequestHeaders"
        /\ branch[i] = "else"
        /\ HeaderGet(in[i].r.Header, "X-Custom") = "sent"
        /\ "X-Custom" \notin DOMAIN r[i].Header
        /\ todo[i] = << >>
        /\ ret[i] = "err"
        /\ "X-Custom" \notin DOMAIN res[i]

(* C15: the options of the instance are those it was constructed with, in  *)
(* every state, whatever calls of ServeHTTP, ModifyRequestHeaders and      *)
(* ModifyResponseHeaders were made and however they interleaved.           *)
C15_OptionsNeverChange ==
    ~s.isNil => s.opt = HeaderOptions(headers)

\* Every method has run, the custom headers were applied and an origin was
\* captured, under options that set every field.
C15_Witness ==
    /\ ~s.isNil
    /\ s.opt.AccessControlAllowCredentials
    /\ s.opt.CustomRequestHeaders # NoHeaders
    /\ s.opt.AccessControlMaxAge = Int64Of(600)
    /\ s.originHeader # ""
    /\ \E i \in Reqs : branch[i] = "preflight" /\ Served(i)
    /\ \E i \in Reqs : mutated[i] /\ ret[i] # "none" /\ todo[i] = << >>

(* C16: the preflight branch of ServeHTTP leaves the request as ServeHTTP  *)
(* received it, no custom request header set or deleted, writes neither    *)
(* the status nor the body of the response, and does not call next.        *)
C16_PreflightWritesOnlyHeaders ==
    \A i \in Reqs :
        branch[i] = "preflight" =>
            /\ r[i] = arrived[i]
            /\ w[i].Code = in[i].w.Code
            /\ w[i].Body = in[i].w.Body
            /\ nextLog[i] = << >>

\* A preflight was answered under options that set and that delete custom
\* request headers; its response got headers only.
C16_Witness ==
    \E i \in Reqs :
        /\ branch[i] = "preflight"
        /\ Served(i)
        /\ s.opt.CustomRequestHeaders = ("Origin" :> "https://forged.test") @@ ("X-Custom" :> "")
        /\ HeaderGet(r[i].Header, "Origin") = "https://a.test"
        /\ w[i].Header # in[i].w.Header
        /\ w[i].Code = 0

\* The names of map m that denote the Origin header.
OriginNames(m) == { k \in DOMAIN m : CanonicalHeaderKey(k) = "Origin" }

(* C17: under customRequestHeaders that set or delete Origin, the branch   *)
(* of ServeHTTP is decided by the Origin and the two                       *)
(* Access-Control-Request-* headers the request came with, the origin      *)
(* ModifyResponseHeaders reflects afterwards is the one it came with, and  *)
(* next sees the Origin as the mutation left it.                           *)
C17_OriginReadBeforeMutation ==
    \A i \in Reqs :
        (~s.isNil /\ OriginNames(s.opt.CustomRequestHeaders) # {} /\ branch[i] # "none") =>
            /\ branch[i] = "preflight" <=>
                   IsPreflight(HeaderGet(arrived[i].Header, "Access-Control-Request-Method"),
                               HeaderGet(arrived[i].Header, "Access-Control-Request-Headers"),
                               OriginOf(i), arrived[i].Method)
            /\ (Configured("origin-list-or-null") /\ ret[i] = "nil")
                   => HeaderValues(res[i], ACAO)
                          = << IF OriginOf(i) = "" THEN "null" ELSE OriginOf(i) >>
            /\ (branch[i] = "else" /\ in[i].hasNext)
                   => /\ Len(nextLog[i]) = 1
                      /\ HasValues(nextLog[i][1], s.opt.CustomRequestHeaders,
                                   OriginNames(s.opt.CustomRequestHeaders))

\* The headers lines 133-144 of ModifyResponseHeaders set.
CorsResponseNames ==
    { ACAO, "Access-Control-Allow-Credentials", "Access-Control-Expose-Headers" }

\* Header set h is h0 after the sets and deletions of map m, and after
\* nothing else: a header several names of m denote is as one of them has it.
CustomApplied(h0, h, m) ==
    /\ HasValues(h, m, SoleNames(m))
    /\ \A k \in DOMAIN m : \E k2 \in DOMAIN m :
           /\ CanonicalHeaderKey(k2) = CanonicalHeaderKey(k)
           /\ HasValues(h, m, {k2})
    /\ OthersUnchanged(h0, h, m)

(* C18 as stated: when ModifyResponseHeaders has returned an error, the    *)
(* response headers are those from before the call with the custom         *)
(* response headers set and deleted, and Access-Control-Allow-Origin,      *)
(* Access-Control-Allow-Credentials and Access-Control-Expose-Headers are  *)
(* as they were before the call.                                           *)
C18_ErrorLeavesCorsHeaders ==
    \A i \in Reqs :
        ret[i] = "err" =>
            /\ CustomApplied(in[i].res, res[i], s.opt.CustomResponseHeaders)
            /\ \A n \in CorsResponseNames :
                   HeaderValues(res[i], n) = HeaderValues(in[i].res, n)

(* C18, amended: the three CORS headers are as they were before the call   *)
(* unless the custom response headers name them; one that they name is as  *)
(* the custom response headers have it.                                    *)
C18_ErrorLeavesCustomOnly ==
    \A i \in Reqs :
        ret[i] = "err" =>
            /\ CustomApplied(in[i].res, res[i], s.opt.CustomResponseHeaders)
            /\ \A n \in CorsResponseNames \ NamedHeaders(s.opt.CustomResponseHeaders) :
                   HeaderValues(res[i], n) = HeaderValues(in[i].res, n)

\* An error returned under options that set credentials and exposeHeaders:
\* the custom header replaced the backend's, the CORS headers are as they
\* were.
C18_Witness ==
    \E i \in Reqs :
        /\ ret[i] = "err"
        /\ s.opt.AccessControlAllowCredentials
        /\ s.opt.AccessControlExposeHeaders # << >>
        /\ HeaderValues(in[i].res, "X-Custom") = << "backend" >>
        /\ HeaderValues(res[i], "X-Custom") = << "resp" >>
        /\ HeaderValues(res[i], ACAO) = << "https://old.test" >>
        /\ "Access-Control-Allow-Credentials" \notin DOMAIN res[i]

\* This step is the start of a ServeHTTP call in context i.
StartsServeHTTP(i) == pc[i] = "idle" /\ pc'[i] = "sh_branch"

\* This step is the return of ModifyResponseHeaders in context i.
ReturnsFromModifyResponse(i) == pc[i] = "mr_ret" /\ pc'[i] = "idle"

(* C19: when calls do not overlap, s.originHeader is empty until the first *)
(* ServeHTTP call, every ServeHTTP call makes it the Origin header of its  *)
(* request at its start, whichever branch it takes, and nothing else       *)
(* changes it; and under "origin-list-or-null" ModifyResponseHeaders sets  *)
(* Access-Control-Allow-Origin to the origin so captured, "null" when it   *)
(* is empty: before any ServeHTTP call, and after the call of a request    *)
(* without Origin, whatever origins were captured earlier.                 *)
C19_OriginOfLatestServeHTTP ==
    /\ ~s.isNil => s.originHeader = ""
    /\ [][~s.isNil =>
            /\ \A i \in Reqs :
                   StartsServeHTTP(i) => s'.originHeader = HeaderGet(r[i].Header, "Origin")
            /\ (\A i \in Reqs : ~StartsServeHTTP(i)) => s'.originHeader = s.originHeader
            /\ \A i \in Reqs :
                   (ReturnsFromModifyResponse(i) /\ Configured("origin-list-or-null")) =>
                       /\ ret'[i] = "nil"
                       /\ HeaderValues(res'[i], ACAO)
                              = << IF s.originHeader = "" THEN "null" ELSE s.originHeader >>]_vars

\* A response modified before any ServeHTTP call got "null"; and so did the
\* response of a request that came with an Origin, modified after the
\* ServeHTTP call of a request without one.
C19_Witness ==
    \E i, j \in Reqs :
        /\ Configured("origin-list-or-null")
        /\ in[i].calls = << "ModifyResponseHeaders", "ServeHTTP" >>
        /\ ret[i] = "nil"
        /\ HeaderValues(res[i], ACAO) = << "null" >>
        /\ branch[i] = "else"
        /\ OriginOf(i) = ""
        /\ OriginOf(j) = "https://c.test"
        /\ ret[j] = "nil"
        /\ HeaderValues(res[j], ACAO) = << "null" >>

====
